---- MODULE Spec2Model ----
(***************************************************************************)
(* Model of the batch importer of six-cities: ImportCommand                *)
(* (src/src/cli/commands/import.command.ts) driving a TSVFileReader that   *)
(* emits one 'line' event per row and waits for the handler's resolve()    *)
(* before it emits the next one, and an 'end' event with the row count.    *)
(*                                                                         *)
(* One run is one call of ImportCommand.execute in a fresh process; the    *)
(* store (owners, listings) survives from one run to the next.             *)
(***************************************************************************)
EXTENDS Integers, Sequences, FiniteSets, TLC

VARIABLES
    file,        \* the input file: a sequence of lines, the same for every run
    run,         \* number of the current run, 1..MaxRuns
    outcomes,    \* how the earlier runs ended, oldest first
    pc,          \* where execute is: Idle, Connecting, Streaming, Completed, FatalFailed
    execResult,  \* what execute's promise did: pending, returned, threw
    connected,   \* databaseClient holds an open connection
    connects,    \* successful databaseClient.connect calls of this run
    disconnects, \* databaseClient.disconnect calls of this run
    dpc,         \* the disconnect call: none, disconnecting, done
    rstate,      \* TSVFileReader: NotOpened, Ready, AwaitAck, Ended, Failed
    delivered,   \* importedRowCount: lines emitted so far in this run
    hpc,         \* hpc[i]: where the onImportedLine call of line i is
    huser,       \* huser[i]: the user id findOrCreate returned to line i's call (0: none)
    acks,        \* the line numbers whose resolve() was called, in call order
    owners,      \* the users collection, in creation order; a user's id is its index
    listings,    \* the offers collection, in creation order
    reported,    \* the counts printed by console.info ("<count> rows imported.")
    errors,      \* number of console.error lines printed by execute's catch
    rejections,  \* onImportedLine promises that rejected (nobody handles them)
    readError,   \* what fileReader.read() rejected with: none, Error, other
    offerOwner,  \* OfferController's store: offerOwner[o] is the user who owns offer o
    offerDocs,   \* offerDocs[o]: whether offer o exists, its content, who changed it last
    request,     \* the last request OfferController.update or delete handled
    response,    \* the status that request was answered with
    lastCall     \* the offerService.updateById / deleteById call that request made

vars == <<file, run, outcomes, pc, execResult, connected, connects, disconnects,
          dpc, rstate, delivered, hpc, huser, acks, owners, listings, reported,
          errors, rejections, readError, offerOwner, offerDocs, request,
          response, lastCall>>

ctlVars == <<offerOwner, offerDocs, request, response, lastCall>>

importVars == <<file, run, outcomes, pc, execResult, connected, connects,
                disconnects, dpc, rstate, delivered, hpc, huser, acks, owners,
                listings, reported, errors, rejections, readError>>

----------------------------------------------------------------------------
(* Bounds of the model *)

MaxLines == 3

MaxRuns == 2

MaxOffers == 2

MaxUsers == 2

OfferIds == 1..MaxOffers

UserIds == 1..MaxUsers

(* Contents an offer can have: the created one and what UpdateOfferDto sets *)
Bodies == {"created", "edited", "edited again"}

NoRequest == [op |-> "none", user |-> 0, offer |-> 0]

NewDoc == [exists |-> TRUE, body |-> "created", by |-> 0]

(* Number of columns of a row in the pinned schema *)
ColumnCount == 16

Emails == {"a@x", "b@x"}

Names == {"Ann", "Bob"}

(* A line is abstracted to what the importer reads from it: how many       *)
(* tab-separated columns it has, and the owner's email and name columns.   *)
GoodLines == [columns : {ColumnCount}, email : Emails, name : Names]

BadLine == [columns |-> ColumnCount - 1, email |-> "a@x", name |-> "Ann"]

Lines == GoodLines \cup {BadLine}

Files == UNION {[1..n -> Lines] : n \in 0..MaxLines}

----------------------------------------------------------------------------
(* Pure helpers *)

Range(s) == {s[i] : i \in 1..Len(s)}

(* createOffer succeeds only on a row with the schema's column count *)
ParseOk(line) == line.columns = ColumnCount

(* createOffer(line).user: the owner profile embedded in the row *)
createOffer(line) == [email |-> line.email, name |-> line.name]

WellFormed(f) == \A i \in 1..Len(f) : ParseOk(f[i])

DistinctEmails(f) == {f[i].email : i \in 1..Len(f)}

(* userService.findOrCreate: the id of the user with the profile's email,  *)
(* and the collection with the user added when there was none              *)
FindByEmail(os, email) == {i \in 1..Len(os) : os[i].email = email}

findOrCreate(os, profile, r) ==
    IF FindByEmail(os, profile.email) # {}
    THEN [id |-> CHOOSE i \in FindByEmail(os, profile.email) :
                    \A j \in FindByEmail(os, profile.email) : i <= j,
          users |-> os]
    ELSE [id |-> Len(os) + 1,
          users |-> Append(os, [email |-> profile.email, name |-> profile.name,
                                run |-> r])]

InFlight == {i \in DOMAIN hpc : hpc[i] \in {"findOrCreate", "create", "resolve"}}

Acked(i) == i \in Range(acks)

(* A handler promise rejected: resolve() of that line is never called and  *)
(* the reader waits for it forever                                         *)
Stalled == pc = "Streaming" /\ \E i \in DOMAIN hpc : hpc[i] = "rejected"

Terminated == pc \in {"Completed", "FatalFailed"} \/ Stalled

----------------------------------------------------------------------------
CtlInit ==
    /\ offerDocs = [o \in OfferIds |-> NewDoc]
    /\ request = NoRequest
    /\ response = "none"
    /\ lastCall = NoRequest

Init ==
    /\ offerOwner = [o \in OfferIds |-> 1]
    /\ CtlInit
    /\ file \in Files
    /\ run = 1
    /\ outcomes = <<>>
    /\ pc = "Idle"
    /\ execResult = "pending"
    /\ connected = FALSE
    /\ connects = 0
    /\ disconnects = 0
    /\ dpc = "none"
    /\ rstate = "NotOpened"
    /\ delivered = 0
    /\ hpc = [i \in 1..Len(file) |-> "none"]
    /\ huser = [i \in 1..Len(file) |-> 0]
    /\ acks = <<>>
    /\ owners = <<>>
    /\ listings = <<>>
    /\ reported = <<>>
    /\ errors = 0
    /\ rejections = 0
    /\ readError = "none"

----------------------------------------------------------------------------
(* ImportCommand.execute, up to the await of databaseClient.connect *)
Execute ==
    /\ pc = "Idle"
    /\ pc' = "Connecting"
    /\ UNCHANGED <<ctlVars, readError, file, run, outcomes, execResult, connected, connects,
                   disconnects, dpc, rstate, delivered, hpc, huser, acks,
                   owners, listings, reported, errors, rejections>>

(* Variant of ConnectOk: connect is not awaited, the file is read while    *)
(* the connection is still being opened                                    *)
ConnectOk_NotAwaited ==
    /\ pc = "Connecting"
    /\ connected' = FALSE
    /\ connects' = connects + 1
    /\ rstate' = "Ready"
    /\ pc' = "Streaming"
    /\ UNCHANGED <<ctlVars, readError, file, run, outcomes, execResult, disconnects, dpc,
                   delivered, hpc, huser, acks, owners, listings, reported,
                   errors, rejections>>

(* connect resolved: execute creates the reader, registers onImportedLine  *)
(* and onCompleteImport, and awaits fileReader.read()                      *)
ConnectOk ==
    /\ pc = "Connecting"
    /\ connected' = TRUE
    /\ connects' = connects + 1
    /\ rstate' = "Ready"
    /\ pc' = "Streaming"
    /\ UNCHANGED <<ctlVars, readError, file, run, outcomes, execResult, disconnects, dpc,
                   delivered, hpc, huser, acks, owners, listings, reported,
                   errors, rejections>>

(* Variant of ConnectFails: the rejection of connect is swallowed and      *)
(* execute goes on to read the file                                        *)
ConnectFails_Swallowed ==
    /\ pc = "Connecting"
    /\ pc' = "Streaming"
    /\ rstate' = "Ready"
    /\ UNCHANGED <<ctlVars, readError, file, run, outcomes, execResult, connected, connects,
                   disconnects, dpc, delivered, hpc, huser, acks, owners,
                   listings, reported, errors, rejections>>

(* connect rejected: the await is outside the try, so execute rejects      *)
(* before the reader exists                                                *)
ConnectFails ==
    /\ pc = "Connecting"
    /\ pc' = "FatalFailed"
    /\ execResult' = "threw"
    /\ UNCHANGED <<ctlVars, readError, file, run, outcomes, connected, connects, disconnects, dpc,
                   rstate, delivered, hpc, huser, acks, owners, listings,
                   reported, errors, rejections>>

(* Variant of onImportedLine: saveOffer is not awaited, resolve() is called *)
(* as soon as the row is parsed                                            *)
onImportedLine_NoAwait(i) ==
    IF ParseOk(file[i])
    THEN /\ hpc' = [hpc EXCEPT ![i] = "findOrCreate"]
         /\ rejections' = rejections
         /\ acks' = Append(acks, i)
    ELSE /\ hpc' = [hpc EXCEPT ![i] = "rejected"]
         /\ rejections' = rejections + 1
         /\ acks' = acks

(* onImportedLine(line, resolve) up to its first await: createOffer runs   *)
(* synchronously inside emit; when it throws, the async function's promise *)
(* rejects and resolve is never called                                     *)
onImportedLine(i) ==
    /\ IF ParseOk(file[i])
       THEN /\ hpc' = [hpc EXCEPT ![i] = "findOrCreate"]
            /\ rejections' = rejections
       ELSE /\ hpc' = [hpc EXCEPT ![i] = "rejected"]
            /\ rejections' = rejections + 1
    /\ acks' = acks

(* TSVFileReader.read: the next row is emitted with a resolve handle, and  *)
(* the reader awaits the handle before it goes on                          *)
DeliverLine ==
    /\ pc = "Streaming"
    /\ rstate = "Ready"
    /\ delivered < Len(file)
    /\ delivered' = delivered + 1
    /\ onImportedLine(delivered + 1)
    /\ rstate' = IF (delivered + 1) \in Range(acks') THEN "Ready" ELSE "AwaitAck"
    /\ UNCHANGED <<ctlVars, readError, file, run, outcomes, pc, execResult, connected, connects,
                   disconnects, dpc, huser, owners, listings, reported, errors>>

(* Variant of SaveOfferFindOrCreateOk: saveOffer creates a user for every  *)
(* row instead of looking the email up first                               *)
SaveOfferFindOrCreateOk_AlwaysCreate(i) ==
    /\ hpc[i] = "findOrCreate"
    /\ owners' = Append(owners, [email |-> createOffer(file[i]).email,
                                 name |-> createOffer(file[i]).name,
                                 run |-> run])
    /\ huser' = [huser EXCEPT ![i] = Len(owners) + 1]
    /\ hpc' = [hpc EXCEPT ![i] = "create"]
    /\ UNCHANGED <<ctlVars, readError, file, run, outcomes, pc, execResult, connected, connects,
                   disconnects, dpc, rstate, delivered, acks, listings,
                   reported, errors, rejections>>

(* saveOffer: userService.findOrCreate resolved with the user *)
SaveOfferFindOrCreateOk(i) ==
    /\ hpc[i] = "findOrCreate"
    /\ LET r == findOrCreate(owners, createOffer(file[i]), run)
       IN  /\ owners' = r.users
           /\ huser' = [huser EXCEPT ![i] = r.id]
    /\ hpc' = [hpc EXCEPT ![i] = "create"]
    /\ UNCHANGED <<ctlVars, readError, file, run, outcomes, pc, execResult, connected, connects,
                   disconnects, dpc, rstate, delivered, acks, listings,
                   reported, errors, rejections>>

(* Variant of SaveOfferFindOrCreateFails: the rejection of findOrCreate is *)
(* swallowed and saveOffer goes on to create the offer without a user      *)
SaveOfferFindOrCreateFails_Continue(i) ==
    /\ hpc[i] = "findOrCreate"
    /\ hpc' = [hpc EXCEPT ![i] = "create"]
    /\ rejections' = rejections
    /\ UNCHANGED <<ctlVars, readError, file, run, outcomes, pc, execResult, connected, connects,
                   disconnects, dpc, rstate, delivered, huser, acks, owners,
                   listings, reported, errors>>

(* saveOffer: userService.findOrCreate rejected; nothing catches it *)
SaveOfferFindOrCreateFails(i) ==
    /\ hpc[i] = "findOrCreate"
    /\ hpc' = [hpc EXCEPT ![i] = "rejected"]
    /\ rejections' = rejections + 1
    /\ UNCHANGED <<ctlVars, readError, file, run, outcomes, pc, execResult, connected, connects,
                   disconnects, dpc, rstate, delivered, huser, acks, owners,
                   listings, reported, errors>>

(* Variant of SaveOfferCreateOk: the offer is not stored when the store     *)
(* already holds the offer of that row for that user                       *)
SaveOfferCreateOk_Dedup(i) ==
    /\ hpc[i] = "create"
    /\ listings' = IF \E k \in 1..Len(listings) :
                         listings[k].owner = huser[i] /\ listings[k].line = i
                   THEN listings
                   ELSE Append(listings, [owner |-> huser[i], run |-> run, line |-> i])
    /\ hpc' = [hpc EXCEPT ![i] = "resolve"]
    /\ UNCHANGED <<ctlVars, readError, file, run, outcomes, pc, execResult, connected, connects,
                   disconnects, dpc, rstate, delivered, huser, acks, owners,
                   reported, errors, rejections>>

(* saveOffer: offerService.create resolved; the offer is stored under the  *)
(* id of the user findOrCreate returned                                    *)
SaveOfferCreateOk(i) ==
    /\ hpc[i] = "create"
    /\ listings' = Append(listings, [owner |-> huser[i], run |-> run, line |-> i])
    /\ hpc' = [hpc EXCEPT ![i] = "resolve"]
    /\ UNCHANGED <<ctlVars, readError, file, run, outcomes, pc, execResult, connected, connects,
                   disconnects, dpc, rstate, delivered, huser, acks, owners,
                   reported, errors, rejections>>

(* saveOffer: offerService.create rejected; nothing catches it *)
SaveOfferCreateFails(i) ==
    /\ hpc[i] = "create"
    /\ hpc' = [hpc EXCEPT ![i] = "rejected"]
    /\ rejections' = rejections + 1
    /\ UNCHANGED <<ctlVars, readError, file, run, outcomes, pc, execResult, connected, connects,
                   disconnects, dpc, rstate, delivered, huser, acks, owners,
                   listings, reported, errors>>

(* onImportedLine after await saveOffer: resolve() releases the reader *)
Resolve(i) ==
    /\ hpc[i] = "resolve"
    /\ acks' = Append(acks, i)
    /\ hpc' = [hpc EXCEPT ![i] = "done"]
    /\ rstate' = IF rstate = "AwaitAck" /\ delivered = i THEN "Ready" ELSE rstate
    /\ UNCHANGED <<ctlVars, readError, file, run, outcomes, pc, execResult, connected, connects,
                   disconnects, dpc, delivered, huser, owners, listings,
                   reported, errors, rejections>>

(* Variant of onCompleteImport: the summary is one row short *)
onCompleteImport_OffByOne(count) ==
    /\ reported' = Append(reported, count - 1)
    /\ disconnects' = disconnects + 1
    /\ dpc' = "disconnecting"

(* onCompleteImport(count) up to its await: the summary is printed and     *)
(* databaseClient.disconnect is called                                     *)
onCompleteImport(count) ==
    /\ reported' = Append(reported, count)
    /\ disconnects' = disconnects + 1
    /\ dpc' = "disconnecting"

(* TSVFileReader.read at end of input: 'end' is emitted with the row       *)
(* count, read() resolves and execute returns                              *)
EndOfInput ==
    /\ pc = "Streaming"
    /\ rstate = "Ready"
    /\ delivered = Len(file)
    /\ onCompleteImport(delivered)
    /\ rstate' = "Ended"
    /\ pc' = "Completed"
    /\ execResult' = "returned"
    /\ UNCHANGED <<ctlVars, readError, file, run, outcomes, connected, connects, delivered, hpc,
                   huser, acks, owners, listings, errors, rejections>>

(* databaseClient.disconnect settles *)
DisconnectSettles ==
    /\ dpc = "disconnecting"
    /\ dpc' = "done"
    /\ connected' = FALSE
    /\ UNCHANGED <<ctlVars, readError, file, run, outcomes, pc, execResult, connects, disconnects,
                   rstate, delivered, hpc, huser, acks, owners, listings,
                   reported, errors, rejections>>

(* Variant of CatchReadError: the catch swallows whatever was thrown *)
CatchReadError_CatchAll(isError) ==
    /\ errors' = errors + 2
    /\ execResult' = "returned"
    /\ pc' = "FatalFailed"
    /\ UNCHANGED <<connected, disconnects, dpc, reported>>

(* execute's catch around fileReader.read(): an Error is printed (file     *)
(* name, then message) and execute returns; anything else is rethrown      *)
CatchReadError(isError) ==
    /\ IF isError
       THEN errors' = errors + 2 /\ execResult' = "returned"
       ELSE errors' = errors /\ execResult' = "threw"
    /\ pc' = "FatalFailed"
    /\ UNCHANGED <<connected, disconnects, dpc, reported>>

(* TSVFileReader.read rejects: the file cannot be opened, or a chunk       *)
(* cannot be read; the reader is between two rows when that surfaces       *)
ReadFails ==
    /\ pc = "Streaming"
    /\ rstate = "Ready"
    /\ rstate' = "Failed"
    /\ \E isError \in BOOLEAN :
          /\ readError' = IF isError THEN "Error" ELSE "other"
          /\ CatchReadError(isError)
    /\ UNCHANGED <<ctlVars, file, run, outcomes, connects, delivered, hpc, huser, acks,
                   owners, listings, rejections>>

(* The command is run again, in a new process, on the same file and store *)
NewRun ==
    /\ Terminated
    /\ dpc # "disconnecting"
    /\ run < MaxRuns
    /\ run' = run + 1
    /\ outcomes' = Append(outcomes, IF Stalled THEN "Stalled" ELSE pc)
    /\ pc' = "Idle"
    /\ execResult' = "pending"
    /\ connected' = FALSE
    /\ connects' = 0
    /\ disconnects' = 0
    /\ dpc' = "none"
    /\ rstate' = "NotOpened"
    /\ delivered' = 0
    /\ hpc' = [i \in 1..Len(file) |-> "none"]
    /\ huser' = [i \in 1..Len(file) |-> 0]
    /\ acks' = <<>>
    /\ reported' = <<>>
    /\ errors' = 0
    /\ rejections' = 0
    /\ readError' = "none"
    /\ UNCHANGED <<ctlVars, file, owners, listings>>

Next ==
    \/ Execute
    \/ ConnectOk
    \/ ConnectFails
    \/ DeliverLine
    \/ \E i \in DOMAIN hpc : SaveOfferFindOrCreateOk(i)
    \/ \E i \in DOMAIN hpc : SaveOfferFindOrCreateFails(i)
    \/ \E i \in DOMAIN hpc : SaveOfferCreateOk(i)
    \/ \E i \in DOMAIN hpc : SaveOfferCreateFails(i)
    \/ \E i \in DOMAIN hpc : Resolve(i)
    \/ EndOfInput
    \/ DisconnectSettles
    \/ ReadFails
    \/ NewRun

Spec == Init /\ [][Next]_vars

----------------------------------------------------------------------------
TypeOK ==
    /\ file \in Files
    /\ run \in 1..MaxRuns
    /\ pc \in {"Idle", "Connecting", "Streaming", "Completed", "FatalFailed"}
    /\ execResult \in {"pending", "returned", "threw"}
    /\ connected \in BOOLEAN
    /\ dpc \in {"none", "disconnecting", "done"}
    /\ rstate \in {"NotOpened", "Ready", "AwaitAck", "Ended", "Failed"}
    /\ delivered \in 0..Len(file)
    /\ \A i \in DOMAIN hpc :
          hpc[i] \in {"none", "findOrCreate", "create", "resolve", "done", "rejected"}
    /\ readError \in {"none", "Error", "other"}

----------------------------------------------------------------------------
(* Properties *)

ListingsOfRun(r) == {k \in 1..Len(listings) : listings[k].run = r}

OwnersOfRun(r) == {k \in 1..Len(owners) : owners[k].run = r}

Created(i) == \E k \in ListingsOfRun(run) : listings[k].line = i

(* C1: for a well-formed file of N lines whose read does not fail, the run *)
(* has issued exactly N acknowledgments when it has come to rest, in line  *)
(* order 1..N, each after the line's offer was created.                    *)
C1_AcksForEveryLine ==
    (WellFormed(file) /\ Terminated /\ pc # "FatalFailed")
        => /\ acks = [i \in 1..Len(file) |-> i]
           /\ \A i \in Range(acks) : Created(i)

(* C2: at most one record is in flight; every line before the last         *)
(* delivered one has finished and been acknowledged, no line after it has  *)
(* started, and a line whose handle is never invoked leaves the reader     *)
(* waiting on that line.                                                   *)
C2_OneInFlight ==
    /\ Cardinality(InFlight) <= 1
    /\ \A i \in DOMAIN hpc :
          /\ i < delivered => hpc[i] = "done" /\ Acked(i)
          /\ i > delivered => hpc[i] = "none"
          /\ hpc[i] \in {"findOrCreate", "create", "resolve", "rejected"}
                => delivered = i /\ rstate = "AwaitAck" /\ ~Acked(i)

C2_Witness ==
    /\ delivered = 2
    /\ hpc[2] = "create"
    /\ hpc[1] = "done"
    /\ acks = <<1>>

(* C3: a delivered line that fails parsing has been acknowledged and does  *)
(* not leave the run stalled.                                              *)
C3_ParseFailureIsolated ==
    \A i \in 1..delivered :
        ~ParseOk(file[i]) => Acked(i) /\ ~Stalled

(* C4: a well-formed line whose owner resolution or listing creation       *)
(* failed has been acknowledged, the failure has not escaped execute, and  *)
(* the run is not stalled.                                                 *)
C4_StoreFailureIsolated ==
    \A i \in DOMAIN hpc :
        (ParseOk(file[i]) /\ hpc[i] = "rejected")
            => Acked(i) /\ execResult # "threw" /\ ~Stalled

(* C5: a run that opened the connection and reached a terminal state has   *)
(* called disconnect exactly once.                                         *)
C5_DisconnectOnce ==
    (pc \in {"Completed", "FatalFailed"} /\ connects = 1) => disconnects = 1

(* C6: when connect fails, the reader is never opened, no line handler     *)
(* runs, the run creates no owner and no listing, nothing is printed, and  *)
(* execute throws.                                                         *)
C6_ConnectFailureAborts ==
    (pc = "FatalFailed" /\ connects = 0)
        => /\ rstate = "NotOpened"
           /\ delivered = 0
           /\ \A i \in DOMAIN hpc : hpc[i] = "none"
           /\ acks = <<>>
           /\ OwnersOfRun(run) = {}
           /\ ListingsOfRun(run) = {}
           /\ execResult = "threw"
           /\ errors = 0
           /\ reported = <<>>

C6_Witness == pc = "FatalFailed" /\ connects = 0 /\ Len(file) > 0

(* C7: after a read error that follows K >= 1 processed lines, the K       *)
(* listings are in the store, the summary reports K, and a fatal error is  *)
(* surfaced.                                                               *)
C7_MidStreamError ==
    (pc = "FatalFailed" /\ connects = 1 /\ Len(acks) >= 1)
        => /\ Cardinality(ListingsOfRun(run)) = Len(acks)
           /\ reported = <<Len(acks)>>
           /\ (execResult = "threw" \/ errors > 0)

(* C8: after the same file has been imported in consecutive completed      *)
(* runs, the store holds exactly one owner per distinct email of the file  *)
(* and one listing per line and run (twice the lines after two runs).      *)
C8_ReimportOwnersOnceListingsDoubled ==
    (pc = "Completed" /\ \A k \in 1..Len(outcomes) : outcomes[k] = "Completed")
        => /\ \A e \in DistinctEmails(file) : Cardinality(FindByEmail(owners, e)) = 1
           /\ Len(owners) = Cardinality(DistinctEmails(file))
           /\ Len(listings) = run * Len(file)
           /\ \A r \in 1..run : Cardinality(ListingsOfRun(r)) = Len(file)

C8_Witness ==
    /\ pc = "Completed"
    /\ run = 2
    /\ outcomes = <<"Completed">>
    /\ Len(file) = 3
    /\ Len(owners) = 2
    /\ Len(listings) = 6

(* C9: a run that ended on a fatal error has thrown out of execute, and    *)
(* if it had opened the connection, has released it.                       *)
C9_FatalReraisedAfterCleanup ==
    pc = "FatalFailed"
        => /\ execResult = "threw"
           /\ connects = 1 => (disconnects = 1 /\ ~connected)

(* C10: the summary is printed once, at end of input, with the number of   *)
(* lines delivered, which is the number of lines of the file; after the    *)
(* first run (empty store) has completed the store holds one owner per     *)
(* distinct email and one listing per line.                                *)
C10_SummaryAndCounts ==
    /\ reported # <<>>
          => reported = <<delivered>> /\ delivered = Len(file) /\ pc = "Completed"
    /\ (pc = "Completed" /\ run = 1)
          => /\ reported = <<Len(file)>>
             /\ Len(owners) = Cardinality(DistinctEmails(file))
             /\ Len(listings) = Len(file)

C10_Witness ==
    /\ pc = "Completed"
    /\ run = 1
    /\ Len(file) = 3
    /\ Cardinality(DistinctEmails(file)) = 2
    /\ Len(owners) = 2
    /\ Len(listings) = 3
    /\ reported = <<3>>

(* C11: when fileReader.read() rejected with an Error, execute printed two *)
(* lines (the file name message and the error message) and returned        *)
(* normally; when it rejected with any other value, execute printed        *)
(* nothing and threw.                                                      *)
C11_CatchOnlyErrors ==
    /\ readError = "Error" => execResult = "returned" /\ errors = 2
    /\ readError = "other" => execResult = "threw" /\ errors = 0

C11_Witness == readError = "other" /\ execResult = "threw" /\ delivered >= 1

(* C12: while a record's owner resolution or listing creation is in        *)
(* flight the connection is open and disconnect has not been called; once  *)
(* disconnect has been called, or the run has ended on a fatal error, no   *)
(* record is in flight and none is started.                                *)
C12_StoreOpsInsideConnectedWindow ==
    /\ InFlight # {} => connected /\ dpc = "none" /\ pc = "Streaming"
    /\ dpc # "none" => InFlight = {} /\ rstate = "Ended" /\ delivered = Len(acks)
    /\ pc = "FatalFailed" => InFlight = {} /\ delivered = Len(acks)

C12_Witness ==
    /\ delivered = 2
    /\ hpc[2] = "create"
    /\ connected
    /\ Len(listings) >= 1

(* C13: every listing in the store belongs to a stored owner whose email   *)
(* is the email of the line it was created from; in the current run a line *)
(* has a listing only after its owner resolution returned, and the listing *)
(* carries the id that resolution returned; a line whose owner resolution  *)
(* failed has no listing.                                                  *)
C13_OwnerResolvedBeforeListing ==
    /\ \A k \in 1..Len(listings) :
          /\ listings[k].owner \in 1..Len(owners)
          /\ owners[listings[k].owner].email = file[listings[k].line].email
    /\ \A i \in DOMAIN hpc :
          /\ hpc[i] \in {"create", "resolve", "done"} => huser[i] \in 1..Len(owners)
          /\ huser[i] = 0 => ~Created(i)
          /\ Created(i) <=> (hpc[i] \in {"resolve", "done"})
          /\ \A k \in ListingsOfRun(run) :
                listings[k].line = i => listings[k].owner = huser[i]

C13_Witness ==
    /\ Len(file) = 2
    /\ hpc[1] = "done"
    /\ hpc[2] = "rejected"
    /\ huser[2] = 0
    /\ Cardinality(ListingsOfRun(run)) = 1

UniqueEmails(os) ==
    \A j, k \in 1..Len(os) : os[j].email = os[k].email => j = k

(* The owner resolution of line i returns in this step *)
Resolves(i) == hpc[i] = "findOrCreate" /\ hpc'[i] = "create"

(* C14: in every step the stored owners keep their email and name; an      *)
(* owner resolution for an email that is stored returns that owner's id    *)
(* and leaves the owners as they are; an owner is added only by a          *)
(* resolution for an email that is not stored, with that email; and no two *)
(* owners share an email.                                                  *)
C14_FirstSeenWins ==
    [][ /\ Len(owners') >= Len(owners)
        /\ \A k \in 1..Len(owners) : owners'[k] = owners[k]
        /\ \A i \in DOMAIN hpc :
              (Resolves(i) /\ FindByEmail(owners, file[i].email) # {})
                 => /\ owners' = owners
                    /\ huser'[i] \in FindByEmail(owners, file[i].email)
        /\ owners' # owners
              => \E i \in DOMAIN hpc :
                    /\ Resolves(i)
                    /\ FindByEmail(owners, file[i].email) = {}
                    /\ owners' = Append(owners, [email |-> file[i].email,
                                                 name |-> file[i].name,
                                                 run |-> run])
                    /\ huser'[i] = Len(owners')
        /\ UniqueEmails(owners')
      ]_vars

C14_Witness ==
    \E i \in DOMAIN hpc :
        /\ hpc[i] = "create"
        /\ huser[i] \in 1..Len(owners)
        /\ owners[huser[i]].email = file[i].email
        /\ owners[huser[i]].name # file[i].name
        /\ Len(owners) = 1

(* A step of the current run: every action but the start of a new run *)
RunStep ==
    \/ Execute
    \/ ConnectOk
    \/ ConnectFails
    \/ DeliverLine
    \/ \E i \in DOMAIN hpc : SaveOfferFindOrCreateOk(i)
    \/ \E i \in DOMAIN hpc : SaveOfferFindOrCreateFails(i)
    \/ \E i \in DOMAIN hpc : SaveOfferCreateOk(i)
    \/ \E i \in DOMAIN hpc : SaveOfferCreateFails(i)
    \/ \E i \in DOMAIN hpc : Resolve(i)
    \/ EndOfInput
    \/ DisconnectSettles
    \/ ReadFails

(* C15: a run in which nothing more can happen has reached Completed or    *)
(* FatalFailed and execute has returned or thrown; in particular a run     *)
(* with a failed record is not left waiting on an unacknowledged line.     *)
C15_RunTerminates ==
    ~(ENABLED RunStep)
        => /\ pc \in {"Completed", "FatalFailed"}
           /\ execResult \in {"returned", "threw"}
           /\ ~Stalled

----------------------------------------------------------------------------
(* OfferController: PATCH /:offerId (update) and DELETE /:offerId (delete) *)

(* offerService.isOfferOwner(offerId, userId) *)
isOfferOwner(o, u) == offerOwner[o] = u

(* The route's middlewares let a request through to the handler: the       *)
(* caller is authenticated and the offer exists                            *)
RouteAdmits(u, o) == u \in UserIds /\ o \in OfferIds /\ offerDocs[o].exists

(* Variant of update: the owner check is left out *)
update_NoOwnerCheck(u, o, b) ==
    /\ RouteAdmits(u, o)
    /\ request' = [op |-> "update", user |-> u, offer |-> o]
    /\ lastCall' = [op |-> "updateById", user |-> u, offer |-> o]
    /\ offerDocs' = [offerDocs EXCEPT ![o] = [exists |-> TRUE, body |-> b, by |-> u]]
    /\ response' = "OK"
    /\ UNCHANGED <<offerOwner, importVars>>

(* OfferController.update: FORBIDDEN unless the caller owns the offer,     *)
(* else offerService.updateById and 200                                    *)
update(u, o, b) ==
    /\ RouteAdmits(u, o)
    /\ request' = [op |-> "update", user |-> u, offer |-> o]
    /\ IF ~isOfferOwner(o, u)
       THEN /\ response' = "FORBIDDEN"
            /\ lastCall' = NoRequest
            /\ offerDocs' = offerDocs
       ELSE /\ lastCall' = [op |-> "updateById", user |-> u, offer |-> o]
            /\ offerDocs' = [offerDocs EXCEPT
                                ![o] = [exists |-> TRUE, body |-> b, by |-> u]]
            /\ response' = "OK"
    /\ UNCHANGED <<offerOwner, importVars>>

(* OfferController.delete: FORBIDDEN unless the caller owns the offer,     *)
(* else offerService.deleteById; 204 when it returned the deleted offer,   *)
(* 500 when it returned nothing                                            *)
delete(u, o, deleted) ==
    /\ RouteAdmits(u, o)
    /\ request' = [op |-> "delete", user |-> u, offer |-> o]
    /\ IF ~isOfferOwner(o, u)
       THEN /\ response' = "FORBIDDEN"
            /\ lastCall' = NoRequest
            /\ offerDocs' = offerDocs
       ELSE /\ lastCall' = [op |-> "deleteById", user |-> u, offer |-> o]
            /\ IF deleted
               THEN /\ offerDocs' = [offerDocs EXCEPT
                                        ![o] = [exists |-> FALSE,
                                                body |-> offerDocs[o].body,
                                                by |-> u]]
                    /\ response' = "NO_CONTENT"
               ELSE /\ offerDocs' = offerDocs
                    /\ response' = "INTERNAL_SERVER_ERROR"
    /\ UNCHANGED <<offerOwner, importVars>>

(* The controller serves requests on a store of offers of any owners; the  *)
(* importer is idle                                                        *)
InitOffers ==
    /\ offerOwner \in [OfferIds -> UserIds]
    /\ CtlInit
    /\ file = <<>>
    /\ run = 1
    /\ outcomes = <<>>
    /\ pc = "Idle"
    /\ execResult = "pending"
    /\ connected = FALSE
    /\ connects = 0
    /\ disconnects = 0
    /\ dpc = "none"
    /\ rstate = "NotOpened"
    /\ delivered = 0
    /\ hpc = <<>>
    /\ huser = <<>>
    /\ acks = <<>>
    /\ owners = <<>>
    /\ listings = <<>>
    /\ reported = <<>>
    /\ errors = 0
    /\ rejections = 0
    /\ readError = "none"

NextOffers ==
    \/ \E u \in UserIds, o \in OfferIds, b \in Bodies \ {"created"} : update(u, o, b)
    \/ \E u \in UserIds, o \in OfferIds, deleted \in BOOLEAN : delete(u, o, deleted)

SpecOffers == InitOffers /\ [][NextOffers]_vars

(* C16: an update or delete request of a user who does not own the offer   *)
(* is answered FORBIDDEN and makes no updateById / deleteById call; every  *)
(* such call is made for the offer's owner; and every offer that was       *)
(* changed or removed was last changed by its owner.                       *)
C16_OnlyOwnerModifies ==
    /\ request.op # "none"
          => (~isOfferOwner(request.offer, request.user)
                 <=> (response = "FORBIDDEN" /\ lastCall = NoRequest))
    /\ lastCall.op # "none"
          => /\ isOfferOwner(lastCall.offer, lastCall.user)
             /\ lastCall.user = request.user /\ lastCall.offer = request.offer
    /\ \A o \in OfferIds :
          /\ offerDocs[o] # NewDoc => offerDocs[o].by = offerOwner[o]
          /\ offerDocs[o].by \in {0, offerOwner[o]}

C16_Witness ==
    /\ response = "FORBIDDEN"
    /\ request.op = "delete"
    /\ offerDocs[request.offer].body = "edited"
    /\ offerDocs[request.offer].exists

====
